---- MODULE Spec2Model ----
(***************************************************************************)
(* The cross-encoder reranking server (scripts/cross_encoder_server.py):   *)
(* the process-wide model, the three route handlers and the worker threads *)
(* of the HTTP server that run them.  JSON and Python values are tagged    *)
(* records; relevance scores are integers standing for finite floats.      *)
(***************************************************************************)
EXTENDS Integers, Sequences, FiniteSets

\* ------------------------------------------------------------------ bounds
\* longest `documents` list a request carries
MaxDocs == 3

\* ------------------------------------------------------- Python/JSON values
Absent == [t |-> "absent"]
Null == [t |-> "null"]
Unbound == [t |-> "unbound"]
StrV(s) == [t |-> "str", s |-> s]
IntV(i) == [t |-> "int", i |-> i]
ListV(l) == [t |-> "list", l |-> l]
ObjV(q, d, n, m) == [t |-> "obj", query |-> q, documents |-> d, top_n |-> n, model |-> m]

Min(a, b) == IF a < b THEN a ELSE b
Max(a, b) == IF a > b THEN a ELSE b

\* the keys an object carries
Keys(o) == {k \in {"query", "documents", "top_n", "model"} : o[k].t # "absent"}

\* Python truthiness, as `not v` uses it
Truthy(v) ==
    CASE v.t = "null" -> FALSE
      [] v.t = "str" -> v.s # ""
      [] v.t = "int" -> v.i # 0
      [] v.t = "list" -> v.l # <<>>
      [] v.t = "obj" -> Keys(v) # {}

\* dict.get(key, default): the default only when the key is absent
DictGet(o, k, default) == IF o[k].t = "absent" THEN default ELSE o[k]

\* len(v) is defined for lists (and dicts); None and numbers raise TypeError
HasLen(v) == v.t \in {"list", "obj"}
PyLen(v) == IF v.t = "list" THEN Len(v.l) ELSE Cardinality(Keys(v))

\* seq[:n]: n is None (everything), or an integer counted from the front
\* when non-negative and from the back when negative
SliceTo(s, n) ==
    IF n.t = "null" THEN s
    ELSE IF n.i >= 0 THEN SubSeq(s, 1, Min(n.i, Len(s)))
    ELSE SubSeq(s, 1, Max(Len(s) + n.i, 0))

\* a variant of Enumerate that counts from 1
EnumerateFromOne(xs) == [k \in 1..Len(xs) |-> <<k, xs[k]>>]

\* list(enumerate(xs)): pairs <<index, x>>, indices from 0
Enumerate(xs) == [k \in 1..Len(xs) |-> <<k - 1, xs[k]>>]

\* a variant of InsertDesc that sorts ascending (reverse=True forgotten)
RECURSIVE InsertAsc(_, _)
InsertAsc(sorted, x) ==
    IF sorted = <<>> THEN <<x>>
    ELSE IF Head(sorted)[2] <= x[2] THEN <<Head(sorted)>> \o InsertAsc(Tail(sorted), x)
    ELSE <<x>> \o sorted

\* a variant of InsertDesc that puts an element before its equals (a sort
\* that is not stable)
RECURSIVE InsertDescUnstable(_, _)
InsertDescUnstable(sorted, x) ==
    IF sorted = <<>> THEN <<x>>
    ELSE IF Head(sorted)[2] > x[2] THEN <<Head(sorted)>> \o InsertDescUnstable(Tail(sorted), x)
    ELSE <<x>> \o sorted

\* list.sort(key=lambda x: x[1], reverse=True): a stable sort, descending by
\* score; elements are inserted in their original order, each after the
\* elements already placed whose score is not smaller
RECURSIVE InsertDesc(_, _)
InsertDesc(sorted, x) ==
    IF sorted = <<>> THEN <<x>>
    ELSE IF Head(sorted)[2] >= x[2] THEN <<Head(sorted)>> \o InsertDesc(Tail(sorted), x)
    ELSE <<x>> \o sorted

RECURSIVE SortByScoreDesc(_)
SortByScoreDesc(s) ==
    IF s = <<>> THEN <<>>
    ELSE InsertDesc(SortByScoreDesc(SubSeq(s, 1, Len(s) - 1)), s[Len(s)])

\* jsonify(body), status
Jsonify(body, status) == [status |-> status, body |-> body]
NoResponse == [status |-> 0, body |-> [none |-> TRUE]]

\* --------------------------------------------------------- external scorer
ModelNames == {"cross-encoder/ms-marco-MiniLM-L-6-v2", "cross-encoder/ms-marco-MiniLM-L-12-v2"}
DefaultModel == "cross-encoder/ms-marco-MiniLM-L-6-v2"

\* CrossEncoder(name): the loaded model, determined by its name
CrossEncoder(name) == [t |-> "model", name |-> name]

\* the documents a request may carry; the scorer cannot encode "bad"
GoodDocs == {"d1", "d2", "d3"}
Docs == GoodDocs \cup {"bad"}
ScorerError == "scorer: cannot encode document"

\* the relevance a loaded model gives one (query, document) pair: a
\* deterministic table in which d1 and d3 tie
Relevance(m, q, d) ==
    LET base == CASE d = "d1" -> 2 [] d = "d2" -> -1 [] d = "d3" -> 2 [] OTHER -> 0
        byQuery == IF q = StrV("q1") THEN base ELSE 1 - base
    IN IF m.name = DefaultModel THEN byQuery ELSE -byQuery

\* model.predict(pairs) raises when a document cannot be encoded
PredictRaises(m, pairs) == \E k \in 1..Len(pairs) : pairs[k][2] = "bad"
\* model.predict(pairs).tolist(): one score per pair, in the order of the pairs
Predict(m, pairs) == [k \in 1..Len(pairs) |-> Relevance(m, pairs[k][1], pairs[k][2])]

\* ---------------------------------------------------------------- requests
DocLists(n) == UNION {[1..k -> Docs] : k \in 0..n}

QueryVals == {Absent, Null, StrV(""), StrV("q1"), StrV("q2"), IntV(7)}
DocumentsVals(n) == {Absent, Null, IntV(5)} \cup {ListV(l) : l \in DocLists(n)}
TopNVals(n) == {Absent, Null, StrV("x")} \cup {IntV(i) : i \in -(n + 1)..(n + 1)}

\* the body of a POST: none (no JSON content type), text that is not JSON,
\* or a JSON value
NoBody == [kind |-> "none", value |-> Null]
Malformed == [kind |-> "malformed", value |-> Null]
JsonBody(v) == [kind |-> "json", value |-> v]

RerankBodies(n) ==
    {NoBody, Malformed, JsonBody(Null), JsonBody(ListV(<<>>)), JsonBody(ListV(<<"d1">>))}
    \cup {JsonBody(ObjV(q, d, k, Absent)) :
            q \in QueryVals, d \in DocumentsVals(n), k \in TopNVals(n)}

Request(route, body) == [route |-> route, body |-> body]
InfoRequests == {Request("health", NoBody), Request("models", NoBody)}
Requests == InfoRequests \cup {Request("rerank", b) : b \in RerankBodies(MaxDocs)}

\* the requests of the concurrent specification: fewer shapes, and a
\* "model" key, which the docstring of rerank lists as optional
ConcSample == <<"d2", "d1", "d3", "d1", "d2", "d3">>
ConcDocLists == {SubSeq(ConcSample, 1, k) : k \in 0..MaxDocs} \cup {<<"bad">>}
ConcBodies ==
    {NoBody, Malformed}
    \cup {JsonBody(ObjV(q, d, k, m)) :
            q \in {Absent, StrV("q1")},
            d \in {Null} \cup {ListV(l) : l \in ConcDocLists},
            k \in {Absent, IntV(-1)},
            m \in {Absent, StrV("cross-encoder/ms-marco-MiniLM-L-12-v2")}}
ConcRequests == InfoRequests \cup {Request("rerank", b) : b \in ConcBodies}

\* the static catalog of list_models
Catalog == <<"cross-encoder/ms-marco-MiniLM-L-6-v2",
             "cross-encoder/ms-marco-MiniLM-L-12-v2",
             "cross-encoder/mmarco-mMiniLMv2-L12-H384-v1",
             "cross-encoder/quora-distilroberta-base">>

\* ------------------------------------------------------------------- state
Threads == {"t1", "t2"}
SeqThreads == {"t1"}

VARIABLES
    args,            \* the parsed command line
    flask21,         \* the installed Flask raises on a non-JSON content type
    model,           \* global: the loaded cross-encoder, None before main
    model_name,      \* global: its name, None before main
    serving,         \* app.run has been reached
    pc,              \* per thread: where its handler is
    req,             \* per thread: the request it handles
    data, query, documents, top_n,                     \* locals of rerank
    scores, indexed_scores, top_indices, top_scores,   \* locals of rerank
    exc,             \* per thread: the message of the exception being handled
    resp,            \* per thread: the response sent for req
    calls,           \* per thread: calls of model.predict for req
    nresp            \* per thread: responses sent for req

globals == <<args, flask21, model, model_name, serving>>
locals == <<data, query, documents, top_n, scores, indexed_scores, top_indices, top_scores, exc>>
vars == <<args, flask21, model, model_name, serving, pc, req, data, query, documents,
          top_n, scores, indexed_scores, top_indices, top_scores, exc, resp, calls, nresp>>

Init ==
    /\ args \in {[model |-> n] : n \in ModelNames}
    /\ flask21 \in BOOLEAN
    /\ model = Null
    /\ model_name = Null
    /\ serving = FALSE
    /\ pc = [t \in Threads |-> "idle"]
    /\ req = [t \in Threads |-> Request("none", NoBody)]
    /\ data = [t \in Threads |-> Unbound]
    /\ query = [t \in Threads |-> Unbound]
    /\ documents = [t \in Threads |-> Unbound]
    /\ top_n = [t \in Threads |-> Unbound]
    /\ scores = [t \in Threads |-> Unbound]
    /\ indexed_scores = [t \in Threads |-> Unbound]
    /\ top_indices = [t \in Threads |-> Unbound]
    /\ top_scores = [t \in Threads |-> Unbound]
    /\ exc = [t \in Threads |-> ""]
    /\ resp = [t \in Threads |-> NoResponse]
    /\ calls = [t \in Threads |-> 0]
    /\ nresp = [t \in Threads |-> 0]

\* main(): load the model named on the command line, then serve
main ==
    /\ ~serving
    /\ model_name' = StrV(args.model)
    /\ model' = CrossEncoder(args.model)
    /\ serving' = TRUE
    /\ UNCHANGED <<args, flask21, pc, req, resp, calls, nresp>>
    /\ UNCHANGED locals

\* the handler's frame is dropped when it returns
DropFrame(t) ==
    /\ data' = [data EXCEPT ![t] = Unbound]
    /\ query' = [query EXCEPT ![t] = Unbound]
    /\ documents' = [documents EXCEPT ![t] = Unbound]
    /\ top_n' = [top_n EXCEPT ![t] = Unbound]
    /\ scores' = [scores EXCEPT ![t] = Unbound]
    /\ indexed_scores' = [indexed_scores EXCEPT ![t] = Unbound]
    /\ top_indices' = [top_indices EXCEPT ![t] = Unbound]
    /\ top_scores' = [top_scores EXCEPT ![t] = Unbound]
    /\ exc' = [exc EXCEPT ![t] = ""]

\* return jsonify(body), status
Return(t, body, status) ==
    /\ resp' = [resp EXCEPT ![t] = Jsonify(body, status)]
    /\ nresp' = [nresp EXCEPT ![t] = @ + 1]
    /\ pc' = [pc EXCEPT ![t] = "done"]
    /\ DropFrame(t)
    /\ UNCHANGED <<req, calls>>
    /\ UNCHANGED globals

\* an exception raised inside the try block: control passes to the handler
Raise(t, msg) ==
    /\ pc' = [pc EXCEPT ![t] = "except"]
    /\ exc' = [exc EXCEPT ![t] = msg]

\* the server hands a request to a free worker thread
Receive(t, R) ==
    /\ serving
    /\ pc[t] = "idle"
    /\ \E r \in R :
        /\ req' = [req EXCEPT ![t] = r]
        /\ pc' = [pc EXCEPT ![t] = IF r.route = "rerank" THEN "get_json" ELSE r.route]
    /\ UNCHANGED <<resp, calls, nresp>>
    /\ UNCHANGED globals
    /\ UNCHANGED locals

\* the response has gone out; the thread is free for the next request
Close(t) ==
    /\ pc[t] = "done"
    /\ pc' = [pc EXCEPT ![t] = "idle"]
    /\ req' = [req EXCEPT ![t] = Request("none", NoBody)]
    /\ resp' = [resp EXCEPT ![t] = NoResponse]
    /\ calls' = [calls EXCEPT ![t] = 0]
    /\ nresp' = [nresp EXCEPT ![t] = 0]
    /\ UNCHANGED globals
    /\ UNCHANGED locals

\* health()
health(t) ==
    /\ pc[t] = "health"
    /\ Return(t, [status |-> "ok", model |-> model_name], 200)

\* list_models()
list_models(t) ==
    /\ pc[t] = "models"
    /\ Return(t, [models |-> Catalog], 200)

\* ------------------------------------------------------------ rerank()
\* request.get_json(): text that is not JSON raises BadRequest; a body with
\* no JSON content type gives None, or raises UnsupportedMediaType in
\* Flask 2.1 and later
GetJson(t) ==
    /\ pc[t] = "get_json"
    /\ LET body == req[t].body IN
        IF body.kind = "malformed" \/ (body.kind = "none" /\ flask21)
        THEN /\ Raise(t, IF body.kind = "malformed"
                         THEN "400 Bad Request: Failed to decode JSON object"
                         ELSE "415 Unsupported Media Type")
             /\ UNCHANGED data
        ELSE /\ data' = [data EXCEPT ![t] = body.value]
             /\ pc' = [pc EXCEPT ![t] = "check_data"]
             /\ UNCHANGED exc
    /\ UNCHANGED <<query, documents, top_n, scores, indexed_scores, top_indices, top_scores>>
    /\ UNCHANGED <<req, resp, calls, nresp>>
    /\ UNCHANGED globals

\* if not data: return 400
CheckData(t) ==
    /\ pc[t] = "check_data"
    /\ IF ~Truthy(data[t])
       THEN Return(t, [error |-> "No JSON data provided"], 400)
       ELSE /\ pc' = [pc EXCEPT ![t] = "read_fields"]
            /\ UNCHANGED <<req, resp, calls, nresp>>
            /\ UNCHANGED locals
            /\ UNCHANGED globals

\* query, documents and top_n are read from data; the default of top_n,
\* len(documents), is evaluated whether or not the key is there
ReadFields(t) ==
    /\ pc[t] = "read_fields"
    /\ IF data[t].t # "obj"
       THEN /\ Raise(t, "'list' object has no attribute 'get'")
            /\ UNCHANGED <<query, documents, top_n>>
       ELSE LET q == DictGet(data[t], "query", Null)
                d == DictGet(data[t], "documents", ListV(<<>>))
            IN /\ query' = [query EXCEPT ![t] = q]
               /\ documents' = [documents EXCEPT ![t] = d]
               /\ IF ~HasLen(d)
                  THEN /\ Raise(t, IF d.t = "null"
                                   THEN "object of type 'NoneType' has no len()"
                                   ELSE "object of type 'int' has no len()")
                       /\ UNCHANGED top_n
                  ELSE /\ top_n' = [top_n EXCEPT ![t] = DictGet(data[t], "top_n", IntV(PyLen(d)))]
                       /\ pc' = [pc EXCEPT ![t] = "validate"]
                       /\ UNCHANGED exc
    /\ UNCHANGED <<data, scores, indexed_scores, top_indices, top_scores>>
    /\ UNCHANGED <<req, resp, calls, nresp>>
    /\ UNCHANGED globals

\* if not query: return 400; if not documents: return 400
Validate(t) ==
    /\ pc[t] = "validate"
    /\ IF ~Truthy(query[t])
       THEN Return(t, [error |-> "Missing 'query' field"], 400)
       ELSE IF ~Truthy(documents[t])
       THEN Return(t, [error |-> "Missing or empty 'documents' field"], 400)
       ELSE /\ pc' = [pc EXCEPT ![t] = "log_request"]
            /\ UNCHANGED <<req, resp, calls, nresp>>
            /\ UNCHANGED locals
            /\ UNCHANGED globals

\* logger.info(... query[:50] ...): a number cannot be sliced
LogRequest(t) ==
    /\ pc[t] = "log_request"
    /\ IF query[t].t = "int"
       THEN Raise(t, "'int' object is not subscriptable")
       ELSE /\ pc' = [pc EXCEPT ![t] = "predict"]
            /\ UNCHANGED exc
    /\ UNCHANGED <<data, query, documents, top_n, scores, indexed_scores, top_indices, top_scores>>
    /\ UNCHANGED <<req, resp, calls, nresp>>
    /\ UNCHANGED globals

\* pairs = [[query, doc] for doc in documents]
Pairs(q, docs) == [k \in 1..Len(docs) |-> <<q, docs[k]>>]

\* a variant of ScorePairs that first loads the model the request names
\* into the process-wide model
ScorePairsOnRequestedModel(t) ==
    /\ pc[t] = "predict"
    /\ calls' = [calls EXCEPT ![t] = @ + 1]
    /\ LET asked == data[t].model
           m == IF asked.t = "str" THEN CrossEncoder(asked.s) ELSE model
           pairs == Pairs(query[t], documents[t].l)
       IN /\ model' = m
          /\ model_name' = IF asked.t = "str" THEN asked ELSE model_name
          /\ IF PredictRaises(m, pairs)
             THEN /\ Raise(t, ScorerError)
                  /\ UNCHANGED scores
             ELSE /\ scores' = [scores EXCEPT ![t] = ListV(Predict(m, pairs))]
                  /\ pc' = [pc EXCEPT ![t] = "sort"]
                  /\ UNCHANGED exc
    /\ UNCHANGED <<data, query, documents, top_n, indexed_scores, top_indices, top_scores>>
    /\ UNCHANGED <<req, resp, nresp>>
    /\ UNCHANGED <<args, flask21, serving>>

\* scores = model.predict(pairs).tolist(), one call on the process-wide model
ScorePairs(t) ==
    /\ pc[t] = "predict"
    /\ calls' = [calls EXCEPT ![t] = @ + 1]
    /\ LET pairs == Pairs(query[t], documents[t].l) IN
        IF PredictRaises(model, pairs)
        THEN /\ Raise(t, ScorerError)
             /\ UNCHANGED scores
        ELSE /\ scores' = [scores EXCEPT ![t] = ListV(Predict(model, pairs))]
             /\ pc' = [pc EXCEPT ![t] = "sort"]
             /\ UNCHANGED exc
    /\ UNCHANGED <<data, query, documents, top_n, indexed_scores, top_indices, top_scores>>
    /\ UNCHANGED <<req, resp, nresp>>
    /\ UNCHANGED globals

\* indexed_scores = list(enumerate(scores)), sorted by score, descending
SortScores(t) ==
    /\ pc[t] = "sort"
    /\ indexed_scores' = [indexed_scores EXCEPT ![t] = ListV(SortByScoreDesc(Enumerate(scores[t].l)))]
    /\ pc' = [pc EXCEPT ![t] = "extract_top"]
    /\ UNCHANGED <<data, query, documents, top_n, scores, top_indices, top_scores, exc>>
    /\ UNCHANGED <<req, resp, calls, nresp>>
    /\ UNCHANGED globals

\* top_indices and top_scores from indexed_scores[:top_n]; a top_n that is
\* neither an integer nor None cannot index a slice
ExtractTop(t) ==
    /\ pc[t] = "extract_top"
    /\ IF top_n[t].t \notin {"int", "null"}
       THEN /\ Raise(t, "slice indices must be integers or None or have an __index__ method")
            /\ UNCHANGED <<top_indices, top_scores>>
       ELSE LET top == SliceTo(indexed_scores[t].l, top_n[t]) IN
            /\ top_indices' = [top_indices EXCEPT ![t] = ListV([k \in 1..Len(top) |-> top[k][1]])]
            /\ top_scores' = [top_scores EXCEPT ![t] = ListV([k \in 1..Len(top) |-> top[k][2]])]
            /\ pc' = [pc EXCEPT ![t] = "respond"]
            /\ UNCHANGED exc
    /\ UNCHANGED <<data, query, documents, top_n, scores, indexed_scores>>
    /\ UNCHANGED <<req, resp, calls, nresp>>
    /\ UNCHANGED globals

\* return jsonify({"scores": top_scores, "indices": top_indices})
Respond(t) ==
    /\ pc[t] = "respond"
    /\ Return(t, [scores |-> top_scores[t].l, indices |-> top_indices[t].l], 200)

\* a variant of HandleException that gives a failed scorer call a second try
HandleExceptionRetry(t) ==
    /\ pc[t] = "except"
    /\ IF exc[t] = ScorerError /\ calls[t] < 2
       THEN /\ pc' = [pc EXCEPT ![t] = "predict"]
            /\ exc' = [exc EXCEPT ![t] = ""]
            /\ UNCHANGED <<data, query, documents, top_n, scores, indexed_scores, top_indices, top_scores>>
            /\ UNCHANGED <<req, resp, calls, nresp>>
            /\ UNCHANGED globals
       ELSE Return(t, [error |-> exc[t]], 500)

\* except Exception as e: return jsonify({"error": str(e)}), 500
HandleException(t) ==
    /\ pc[t] = "except"
    /\ Return(t, [error |-> exc[t]], 500)

\* one step of the handler a thread runs
rerank(t) ==
    \/ GetJson(t)
    \/ CheckData(t)
    \/ ReadFields(t)
    \/ Validate(t)
    \/ LogRequest(t)
    \/ ScorePairs(t)
    \/ SortScores(t)
    \/ ExtractTop(t)
    \/ Respond(t)
    \/ HandleException(t)

Serve(t, R) == Receive(t, R) \/ health(t) \/ rerank(t) \/ list_models(t) \/ Close(t)

\* one worker thread, requests served one after another
Next == main \/ \E t \in SeqThreads : Serve(t, Requests)
Spec == Init /\ [][Next]_vars

\* two worker threads, their handlers interleaved
ConcNext == main \/ \E t \in Threads : Serve(t, ConcRequests)
ConcSpec == Init /\ [][ConcNext]_vars

\* ------------------------------------------------- reading a finished request
\* thread t has answered a POST /rerank
Answered(t) == pc[t] = "done" /\ req[t].route = "rerank"
\* the JSON body parsed to an object
ParsedObject(t) == req[t].body.kind = "json" /\ req[t].body.value.t = "obj"
Sent(t) == req[t].body.value
\* the request passes validation: a non-empty query string, a non-empty list
ValidRequest(t) ==
    /\ ParsedObject(t)
    /\ Sent(t).query.t = "str" /\ Sent(t).query.s # ""
    /\ Sent(t).documents.t = "list" /\ Sent(t).documents.l # <<>>
SentDocs(t) == Sent(t).documents.l
Success(t) == Answered(t) /\ ValidRequest(t) /\ resp[t].status = 200
\* the score the scorer gives the document at original position j (from 0)
ScoreAt(t, j) == Relevance(model, Sent(t).query, SentDocs(t)[j + 1])
Returned(t) == {resp[t].body.indices[k] : k \in 1..Len(resp[t].body.indices)}
LeftOut(t) == (0..(Len(SentDocs(t)) - 1)) \ Returned(t)
ErrorResponse(t, status, msg) == resp[t] = [status |-> status, body |-> [error |-> msg]]

\* C1: every 200 response to a valid request has as many indices as scores,
\* and that many is min(top_n, len(documents)), top_n being len(documents)
\* when omitted
C1_LengthIsMinTopNLen ==
    \A t \in Threads :
        (Success(t) /\ Sent(t).top_n.t \in {"absent", "int"}) =>
            LET n == IF Sent(t).top_n.t = "absent" THEN Len(SentDocs(t)) ELSE Sent(t).top_n.i
            IN /\ Len(resp[t].body.indices) = Len(resp[t].body.scores)
               /\ Len(resp[t].body.indices) = Min(n, Len(SentDocs(t)))

\* C2: for every integer top_n the number of entries returned is
\* min(max(top_n, 0), len(documents)): top_n is clamped to [0, len(documents)]
C2_TopNClamped ==
    \A t \in Threads :
        (Success(t) /\ Sent(t).top_n.t = "int") =>
            Len(resp[t].body.indices) = Min(Max(Sent(t).top_n.i, 0), Len(SentDocs(t)))

\* C3: the returned scores are in non-increasing order, and no document left
\* out of the response has a score strictly greater than a returned score
C3_DescendingTop ==
    \A t \in Threads :
        Success(t) =>
            LET sc == resp[t].body.scores IN
            /\ \A i, j \in 1..Len(sc) : i < j => sc[i] >= sc[j]
            /\ \A j \in LeftOut(t) : \A k \in 1..Len(sc) : ScoreAt(t, j) <= sc[k]

\* a response cut short by top_n, its scores not all equal
C3_Witness ==
    \E t \in Threads :
        /\ Success(t)
        /\ Len(resp[t].body.scores) >= 2
        /\ resp[t].body.scores[1] > resp[t].body.scores[2]
        /\ resp[t].body.indices[1] > resp[t].body.indices[2]
        /\ LeftOut(t) # {}

\* C4: of two returned entries with equal scores the one with the smaller
\* original index comes first, and of a group of equal scores cut by top_n
\* the entries kept are those with the smallest original indices
C4_StableTies ==
    \A t \in Threads :
        Success(t) =>
            LET sc == resp[t].body.scores
                ix == resp[t].body.indices
            IN /\ \A i, j \in 1..Len(sc) : (i < j /\ sc[i] = sc[j]) => ix[i] < ix[j]
               /\ \A k \in 1..Len(sc) : \A j \in LeftOut(t) :
                      ScoreAt(t, j) = sc[k] => ix[k] < j

\* two returned entries tie, and top_n cuts through a group of equal scores
C4_Witness ==
    \E t \in Threads :
        /\ Success(t)
        /\ \E i, j \in 1..Len(resp[t].body.scores) :
               i < j /\ resp[t].body.scores[i] = resp[t].body.scores[j]
        /\ \E k \in 1..Len(resp[t].body.scores) : \E j \in LeftOut(t) :
               ScoreAt(t, j) = resp[t].body.scores[k]

\* C5: every returned index is an original position 0..len(documents)-1, none
\* occurs twice, and scores[k] is the scorer's score of documents[indices[k]]
C5_IndicesAreOriginalPositions ==
    \A t \in Threads :
        Success(t) =>
            LET sc == resp[t].body.scores
                ix == resp[t].body.indices
            IN /\ Len(ix) = Len(sc)
               /\ \A k \in 1..Len(ix) : ix[k] \in 0..(Len(SentDocs(t)) - 1)
               /\ \A i, j \in 1..Len(ix) : i # j => ix[i] # ix[j]
               /\ \A k \in 1..Len(ix) : sc[k] = ScoreAt(t, ix[k])

\* a response of several entries that does not keep the input order
C5_Witness ==
    \E t \in Threads :
        /\ Success(t)
        /\ Len(resp[t].body.indices) >= 3
        /\ resp[t].body.indices[1] # 0
        /\ resp[t].body.scores[1] # resp[t].body.scores[3]

\* C6: a parsed body whose query is absent or empty is answered 400
\* "Missing 'query' field", whatever its other fields, without a scorer call
C6_MissingQueryIs400 ==
    \A t \in Threads :
        (/\ Answered(t)
         /\ ParsedObject(t)
         /\ \/ Sent(t).query.t = "absent"
            \/ Sent(t).query = StrV("")) =>
            /\ ErrorResponse(t, 400, "Missing 'query' field")
            /\ calls[t] = 0

\* C7: with a non-empty query, documents absent, empty or null is answered
\* 400 "Missing or empty 'documents' field", without a scorer call
C7_MissingDocumentsIs400 ==
    \A t \in Threads :
        (/\ Answered(t)
         /\ ParsedObject(t)
         /\ Sent(t).query.t = "str" /\ Sent(t).query.s # ""
         /\ \/ Sent(t).documents.t \in {"absent", "null"}
            \/ Sent(t).documents = ListV(<<>>)) =>
            /\ ErrorResponse(t, 400, "Missing or empty 'documents' field")
            /\ calls[t] = 0

\* C8: a body that is missing or is not JSON is answered 400
\* "No JSON data provided", never 500
C8_NoJsonIs400 ==
    \A t \in Threads :
        (Answered(t) /\ req[t].body.kind \in {"none", "malformed"}) =>
            ErrorResponse(t, 400, "No JSON data provided")

\* the scorer raised while thread t handled its request
ScorerRaised(t) ==
    /\ calls[t] >= 1
    /\ ParsedObject(t)
    /\ Sent(t).documents.t = "list"
    /\ \E k \in 1..Len(SentDocs(t)) : SentDocs(t)[k] = "bad"

\* C9: the scorer is called at most once per request; when it raises, the
\* response is 500 with the exception's message and nothing else; a handler
\* that has not answered can always take its next step, and one that has
\* answered has sent exactly one response, of status 200, 400 or 500
C9_AllOrNothing ==
    \A t \in Threads :
        /\ calls[t] <= 1
        /\ nresp[t] <= 1
        /\ pc[t] \notin {"idle", "done"} => (nresp[t] = 0 /\ ENABLED (rerank(t) \/ health(t) \/ list_models(t)))
        /\ pc[t] = "done" =>
              /\ nresp[t] = 1
              /\ resp[t].status \in {200, 400, 500}
        /\ (pc[t] = "done" /\ ScorerRaised(t)) =>
              ErrorResponse(t, 500, ScorerError)

\* the scorer raised on the second of three documents and the request failed
C9_Witness ==
    \E t \in Threads :
        /\ pc[t] = "done"
        /\ ScorerRaised(t)
        /\ Len(SentDocs(t)) = 3
        /\ SentDocs(t)[1] # "bad" /\ SentDocs(t)[2] = "bad"
        /\ resp[t].status = 500

\* C10: requests that are the same get the same response whatever else the
\* server handles meanwhile, and while it serves, model and model_name keep
\* the values main gave them
C10_StatelessRequests ==
    /\ serving => (model = CrossEncoder(args.model) /\ model_name = StrV(args.model))
    /\ ~serving => \A t \in Threads : pc[t] = "idle"
    /\ \A t1, t2 \in Threads :
          (pc[t1] = "done" /\ pc[t2] = "done" /\ req[t1] = req[t2]) => resp[t1] = resp[t2]

\* two threads have answered the same valid rerank request, which names
\* another model than the one loaded
C10_Witness ==
    \E t1, t2 \in Threads :
        /\ t1 # t2
        /\ Success(t1) /\ Success(t2)
        /\ req[t1] = req[t2]
        /\ Sent(t1).model.t = "str" /\ Sent(t1).model # model_name
        /\ Len(resp[t1].body.indices) >= 2
====
